---------------------------- MODULE Spec2Model ----------------------------
(***************************************************************************)
(* Model of the jetcheck flight listing front end.                         *)
(*                                                                         *)
(*   - the private-jet listing page (fetch effect, filter/sort/page state, *)
(*     the memoised filter -> sort -> paginate pipeline, the facet option  *)
(*     lists and the FiltersDrawer handlers);                              *)
(*   - the time helpers of utils/time.ts.                                  *)
(*                                                                         *)
(* JavaScript values are represented as follows.  A string is the sequence *)
(* of its UTF-16 code units.  null / undefined is Null.  A number is an    *)
(* integer, with the sentinels NaN and Infinity.  Instants are counted in  *)
(* whole hours since the epoch (the code counts milliseconds).  An array   *)
(* of flight objects is a sequence of references into Heap: the page never *)
(* writes to a flight object, it only builds new arrays of the same        *)
(* objects.                                                                *)
(***************************************************************************)
EXTENDS Integers, Sequences, FiniteSets, TLC

(***************************************************************************)
(* String literals used by the model, as code-unit sequences.  The keys    *)
(* are ASCII: "--" stands for a dash above U+007F, "=>" for the arrow      *)
(* U+2192 and "ue" for U+00FC.                                             *)
(***************************************************************************)
StrTable ==
     ("" :> <<>>)
  @@ ("available" :> <<97, 118, 97, 105, 108, 97, 98, 108, 101>>)
  @@ ("pending" :> <<112, 101, 110, 100, 105, 110, 103>>)
  @@ ("unavailable" :> <<117, 110, 97, 118, 97, 105, 108, 97, 98, 108, 101>>)
  @@ ("Unavailable" :> <<85, 110, 97, 118, 97, 105, 108, 97, 98, 108, 101>>)
  @@ ("UNAVAILABLE" :> <<85, 78, 65, 86, 65, 73, 76, 65, 66, 76, 69>>)
  @@ ("ZRH" :> <<90, 82, 72>>)
  @@ ("IBZ" :> <<73, 66, 90>>)
  @@ ("LHR" :> <<76, 72, 82>>)
  @@ ("ibz" :> <<105, 98, 122>>)
  @@ ("Zurich" :> <<90, 117, 114, 105, 99, 104>>)
  @@ ("Ibiza" :> <<73, 98, 105, 122, 97>>)
  @@ ("London" :> <<76, 111, 110, 100, 111, 110>>)
  @@ ("1970-01-01T00:00:00Z" :> <<49, 57, 55, 48, 45, 48, 49, 45, 48, 49, 84, 48, 48, 58, 48, 48, 58, 48, 48, 90>>)
  @@ ("1970-01-01T02:00:00Z" :> <<49, 57, 55, 48, 45, 48, 49, 45, 48, 49, 84, 48, 50, 58, 48, 48, 58, 48, 48, 90>>)
  @@ ("1970-01-01T01:00:00Z" :> <<49, 57, 55, 48, 45, 48, 49, 45, 48, 49, 84, 48, 49, 58, 48, 48, 58, 48, 48, 90>>)
  @@ ("1970-01-02T01:00:00Z" :> <<49, 57, 55, 48, 45, 48, 49, 45, 48, 50, 84, 48, 49, 58, 48, 48, 58, 48, 48, 90>>)
  @@ ("soon" :> <<115, 111, 111, 110>>)
  @@ ("1970-01-01" :> <<49, 57, 55, 48, 45, 48, 49, 45, 48, 49>>)
  @@ ("1970-01-02" :> <<49, 57, 55, 48, 45, 48, 49, 45, 48, 50>>)
  @@ ("PC-12" :> <<80, 67, 45, 49, 50>>)
  @@ (" PC-12 " :> <<32, 80, 67, 45, 49, 50, 32>>)
  @@ ("5" :> <<53>>)
  @@ (" -- " :> <<32, 8212, 32>>)
  @@ ("1970-01" :> <<49, 57, 55, 48, 45, 48, 49>>)
  @@ ("2025-03" :> <<50, 48, 50, 53, 45, 48, 51>>)
  @@ ("2025-10" :> <<50, 48, 50, 53, 45, 49, 48>>)
  @@ (":00:00Z" :> <<58, 48, 48, 58, 48, 48, 90>>)
  @@ ("UTC" :> <<85, 84, 67>>)
  @@ ("Europe/Berlin" :> <<69, 117, 114, 111, 112, 101, 47, 66, 101, 114, 108, 105, 110>>)
  @@ ("Today" :> <<84, 111, 100, 97, 121>>)
  @@ ("Tomorrow" :> <<84, 111, 109, 111, 114, 114, 111, 119>>)
  @@ ("Upcoming" :> <<85, 112, 99, 111, 109, 105, 110, 103>>)
  @@ ("Jan" :> <<74, 97, 110>>)
  @@ ("Mar" :> <<77, 97, 114>>)
  @@ ("Oct" :> <<79, 99, 116>>)
  @@ ("GMT+1" :> <<71, 77, 84, 43, 49>>)
  @@ ("GMT+2" :> <<71, 77, 84, 43, 50>>)
  @@ (", " :> <<44, 32>>)
  @@ (":00" :> <<58, 48, 48>>)
  @@ ("AM" :> <<65, 77>>)
  @@ ("PM" :> <<80, 77>>)
  @@ (":00:00" :> <<58, 48, 48, 58, 48, 48>>)
  @@ ("Zuerich" :> <<90, 252, 114, 105, 99, 104>>)
  @@ ("Amsterdam" :> <<65, 109, 115, 116, 101, 114, 100, 97, 109>>)
  @@ ("Frankfurt" :> <<70, 114, 97, 110, 107, 102, 117, 114, 116>>)
  @@ ("London Heathrow" :> <<76, 111, 110, 100, 111, 110, 32, 72, 101, 97, 116, 104, 114, 111, 119>>)
  @@ ("AMS" :> <<65, 77, 83>>)
  @@ ("FRA" :> <<70, 82, 65>>)
  @@ ("IBZ => ZRH" :> <<73, 66, 90, 32, 8594, 32, 90, 82, 72>>)
  @@ ("ibz->zrh" :> <<105, 98, 122, 45, 62, 122, 114, 104>>)
  @@ ("Ibiza => Zurich" :> <<73, 98, 105, 122, 97, 32, 8594, 32, 90, 117, 114, 105, 99, 104>>)
  @@ ("LA-NY" :> <<76, 65, 45, 78, 89>>)
  @@ ("08:30 -- 10:05" :> <<48, 56, 58, 51, 48, 32, 8211, 32, 49, 48, 58, 48, 53>>)
  @@ ("8:30-10:05" :> <<56, 58, 51, 48, 45, 49, 48, 58, 48, 53>>)
  @@ ("08:30" :> <<48, 56, 58, 51, 48>>)
  @@ ("10:05" :> <<49, 48, 58, 48, 53>>)
  @@ ("8:30" :> <<56, 58, 51, 48>>)
  @@ ("09:00" :> <<48, 57, 58, 48, 48>>)
  @@ ("10:00" :> <<49, 48, 58, 48, 48>>)
  @@ ("zrh" :> <<122, 114, 104>>)
  @@ ("990 EUR" :> <<57, 57, 48, 32, 69, 85, 82>>)
  @@ ("Flight not yet confirmed" :> <<70, 108, 105, 103, 104, 116, 32, 110, 111, 116, 32, 121, 101, 116, 32, 99, 111, 110, 102, 105, 114, 109, 101, 100>>)
  @@ ("IBI" :> <<73, 66, 73>>)
  @@ ("ZUR" :> <<90, 85, 82>>)
  @@ ("LA" :> <<76, 65>>)
  @@ ("NY" :> <<78, 89>>)
  @@ ("abc" :> <<97, 98, 99>>)
  @@ (" " :> <<32>>)
  @@ (" Zur " :> <<32, 90, 117, 114, 32>>)
  @@ ("lon" :> <<108, 111, 110>>)
  @@ ("1970-01-02T02:00:00+02:00" :> <<49, 57, 55, 48, 45, 48, 49, 45, 48, 50, 84, 48, 50, 58, 48, 48, 58, 48, 48, 43, 48, 50, 58, 48, 48>>)
  @@ ("IBZ -- ZRH" :> <<73, 66, 90, 32, 8212, 32, 90, 82, 72>>)
  @@ ("A-B => ZRH" :> <<65, 45, 66, 32, 8594, 32, 90, 82, 72>>)

S(lit) == StrTable[lit]

\* null / undefined: no string and no price is the sequence <<-1>>
Null == << -1 >>

\* where null and undefined behave differently (a default parameter, a
\* destructuring default) an absent field is Undefined
Undefined == << -3 >>

\* a value that is not a string, null or undefined: a number or an object
NotAString == << -4 >>

(***************************************************************************)
(* JavaScript primitives the page uses.                                    *)
(***************************************************************************)
\* Number.NaN and Number.POSITIVE_INFINITY, as integers outside the range
\* of every instant and price of the model
NaN == -1000000
Infinity == 1000000

Min(a, b) == IF a < b THEN a ELSE b
Max(a, b) == IF a > b THEN a ELSE b

\* ToBoolean of a string or null: null, undefined and "" are falsy
Truthy(s) == s # Null /\ s # Undefined /\ s # <<>>

\* ToBoolean of a number: 0 and NaN are falsy
TruthyNum(n) == n # 0 /\ n # NaN

\* x || ""
OrEmpty(s) == IF Truthy(s) THEN s ELSE <<>>

\* a ?? b
Nullish(a, b) == IF a # Null THEN a ELSE b

\* the relational operators on numbers: every comparison with NaN is false
NumLt(a, b) == a # NaN /\ b # NaN /\ a < b
NumGt(a, b) == a # NaN /\ b # NaN /\ a > b

\* String.prototype.toUpperCase / toLowerCase on the ASCII letters
UpperUnit(c) == IF c >= 97 /\ c <= 122 THEN c - 32 ELSE c
LowerUnit(c) == IF c >= 65 /\ c <= 90 THEN c + 32 ELSE c
toUpperCase(s) == [i \in DOMAIN s |-> UpperUnit(s[i])]
toLowerCase(s) == [i \in DOMAIN s |-> LowerUnit(s[i])]

\* Array.prototype.slice / String.prototype.slice(start, end), with the
\* relative (negative) indices of the language
RelIndex(k, len) == IF k < 0 THEN Max(len + k, 0) ELSE Min(k, len)
slice(s, start, end) ==
  LET from0 == RelIndex(start, Len(s))
      to0 == RelIndex(end, Len(s))
  IN  IF to0 <= from0 THEN <<>> ELSE SubSeq(s, from0 + 1, to0)

\* a < b on strings: code-unit lexicographic order
RECURSIVE FirstDiff(_, _, _)
FirstDiff(a, b, i) ==
  IF i > Len(a) \/ i > Len(b) THEN 0
  ELSE IF a[i] # b[i] THEN i
  ELSE FirstDiff(a, b, i + 1)

StrLt(a, b) ==
  LET k == FirstDiff(a, b, 1)
  IN  IF k = 0 THEN Len(a) < Len(b) ELSE a[k] < b[k]

\* String.prototype.trim (the space character is the only white space used)
RECURSIVE TrimStart(_)
TrimStart(s) == IF s # <<>> /\ Head(s) = 32 THEN TrimStart(Tail(s)) ELSE s
RECURSIVE TrimEnd(_)
TrimEnd(s) ==
  IF s # <<>> /\ s[Len(s)] = 32 THEN TrimEnd(SubSeq(s, 1, Len(s) - 1)) ELSE s
trim(s) == TrimEnd(TrimStart(s))

IsDigit(c) == c >= 48 /\ c <= 57

\* Number(string) for the unsigned decimal integers: white space is
\* trimmed, the empty string is 0, anything that is not a numeral is NaN
RECURSIVE DigitsValue(_, _)
DigitsValue(s, acc) ==
  IF s = <<>> THEN acc
  ELSE IF ~IsDigit(Head(s)) THEN NaN
  ELSE DigitsValue(Tail(s), acc * 10 + (Head(s) - 48))
Number(s) == DigitsValue(trim(s), 0)

\* Math.ceil(a / b) for a >= 0, b > 0
CeilDiv(a, b) == (a + b - 1) \div b


(***************************************************************************)
(* new Date(string).getTime(), in hours.  The date-time form               *)
(* YYYY-MM-DDTHH:mm:ss followed by "Z" or by +HH:mm / -HH:mm is an         *)
(* instant; the same form with no zone is local time, off hours east of    *)
(* UTC (the viewer's system timezone).  Anything else is an Invalid Date,  *)
(* whose time value is NaN.  The calendar of the model is the months of    *)
(* Months: every timestamp of the model lies in one of them.               *)
(***************************************************************************)
\* a month, the hour (since the epoch) it starts at in UTC, and its days
Months ==
  << [prefix |-> S("1970-01"), short |-> S("Jan"), start |-> 0, days |-> 31],
     [prefix |-> S("2025-03"), short |-> S("Mar"), start |-> 483552, days |-> 31],
     [prefix |-> S("2025-10"), short |-> S("Oct"), start |-> 488688, days |-> 31] >>

TwoDigits(s, i) == (s[i] - 48) * 10 + (s[i + 1] - 48)

IsDateTimeForm(s) ==
  /\ Len(s) >= 19
  /\ \A i \in {1, 2, 3, 4, 6, 7, 9, 10, 12, 13, 15, 16, 18, 19} : IsDigit(s[i])
  /\ s[5] = 45 /\ s[8] = 45
  /\ s[11] = 84
  /\ s[14] = 58 /\ s[17] = 58
  /\ \E m \in DOMAIN Months : SubSeq(s, 1, 7) = Months[m].prefix
  /\ TwoDigits(s, 9) >= 1 /\ TwoDigits(s, 9) <= 31
  /\ TwoDigits(s, 12) <= 23 /\ TwoDigits(s, 15) <= 59 /\ TwoDigits(s, 18) <= 59

\* the zone designator after the seconds: its offset in hours, NaN if malformed
ZoneOffset(z, off) ==
  IF z = <<>> THEN off
  ELSE IF z = <<90>> THEN 0
  ELSE IF /\ Len(z) = 6 /\ z[1] \in {43, 45} /\ z[4] = 58
          /\ \A i \in {2, 3, 5, 6} : IsDigit(z[i])
       THEN (IF z[1] = 43 THEN 1 ELSE -1) * TwoDigits(z, 2)
  ELSE NaN

DateParse(s, off) ==
  IF ~IsDateTimeForm(s) THEN NaN
  ELSE LET zone == ZoneOffset(SubSeq(s, 20, Len(s)), off)
       IN  IF zone = NaN THEN NaN
           ELSE LET m == CHOOSE k \in DOMAIN Months : SubSeq(s, 1, 7) = Months[k].prefix
                IN  Months[m].start + (TwoDigits(s, 9) - 1) * 24
                      + TwoDigits(s, 12) - zone

(***************************************************************************)
(* The flight objects the API can return.  Heap[i] is the i-th object of   *)
(* the feed; arrays of flights hold the references i.                      *)
(***************************************************************************)
\* bounds: the API answers with the first n objects of the feed, for n up
\* to SmallLen or n = BigLen (more than one page of listed flights)
SmallLen == 2
BigLen == 15

Flight(id, oi, on, di, dn, dep, ac, pc, pn, st, stl, seen) ==
  [id |-> id, origin_iata |-> oi, origin_name |-> on,
   destination_iata |-> di, destination_name |-> dn,
   departure_ts |-> dep, aircraft |-> ac,
   price_current |-> pc, price_normal |-> pn,
   status |-> st, status_latest |-> stl, last_seen_at |-> seen]

FeedObject(i) ==
  CASE i = 1 -> Flight(1, S("ZRH"), S("Zurich"), S("IBZ"), S("Ibiza"),
                       S("1970-01-01T01:00:00Z"), S("PC-12"), <<3>>, <<9>>,
                       Null, S("available"), S("1970-01-01T00:00:00Z"))
    [] i = 2 -> Flight(2, S("ibz"), Null, S("ZRH"), Null,
                       S("1970-01-01T00:00:00Z"), Null, Null, <<9>>,
                       S("pending"), Null, Null)
    [] i = 3 -> Flight(3, S("ZRH"), Null, S("LHR"), S("London"),
                       S("1970-01-02T01:00:00Z"), S("PC-12"), <<3>>, Null,
                       S("available"), S("Unavailable"), Null)
    [] i = 4 -> Flight(4, S("LHR"), S("London"), S("ZRH"), S("Zurich"),
                       S("1970-01-02T01:00:00Z"), Null, <<3>>, Null,
                       S("UNAVAILABLE"), Null, S("1970-01-01T02:00:00Z"))
    [] i = 5 -> Flight(5, Null, Null, S("LHR"), Null,
                       Null, S(" PC-12 "), Null, Null,
                       S("available"), Null, Null)
    [] i = 6 -> Flight(6, S("IBZ"), S("Ibiza"), S("ZRH"), Null,
                       S("soon"), S("PC-12"), <<9>>, <<9>>,
                       S("available"), S("pending"), S("soon"))
    [] i = 7 -> Flight(7, S("ZRH"), S("Zurich"), S("IBZ"), Null,
                       S("1970-01-02T02:00:00+02:00"), Null, <<9>>, Null,
                       Null, S("available"), S("1970-01-01T02:00:00Z"))
    [] OTHER -> Flight(i, S("ZRH"), S("Zurich"), S("IBZ"), Null,
                       S("1970-01-02T01:00:00Z"), Null,
                       IF i % 2 = 0 THEN <<3>> ELSE <<9>>, Null,
                       Null, S("available"), S("1970-01-01T02:00:00Z"))

RespLens == (0 .. SmallLen) \cup {BigLen}

HeapTable == [i \in 1 .. BigLen |-> FeedObject(i)]
Heap(r) == HeapTable[r]

Response(n) == [i \in 1 .. n |-> i]

(***************************************************************************)
(* The pipeline of the listing page, as functions of its inputs.           *)
(***************************************************************************)
pageSize == 12

\* String(f.status_latest ?? f.status ?? "").toLowerCase()
StatusOf(f) == toLowerCase(Nullish(f.status_latest, Nullish(f.status, <<>>)))

\* mutant of baseFlights: the status is compared without lower-casing it
baseFlights_caseSensitive(fl) ==
  SelectSeq(fl, LAMBDA r :
    Nullish(Heap(r).status_latest, Nullish(Heap(r).status, <<>>)) # S("unavailable"))

\* Always hide 'unavailable'
baseFlights(fl) ==
  SelectSeq(fl, LAMBDA r : StatusOf(Heap(r)) # S("unavailable"))

\* mutant of priceToNumber: a flight with no price costs nothing
priceToNumber_missingFree(pCurrent, pNormal) ==
  IF pCurrent # Null THEN pCurrent[1]
  ELSE IF pNormal # Null THEN pNormal[1]
  ELSE 0

priceToNumber(pCurrent, pNormal) ==
  LET val == IF pCurrent # Null THEN pCurrent[1]
             ELSE IF pNormal # Null THEN pNormal[1]
             ELSE NaN
  IN  IF val # NaN /\ val # Infinity THEN val ELSE Infinity

\* String.prototype.localeCompare on ASCII text: letters are compared
\* without regard to case first, a remaining tie puts lower case first
localeCompare(a, b) ==
  LET la == toLowerCase(a)
      lb == toLowerCase(b)
  IN  IF StrLt(la, lb) THEN -1
      ELSE IF StrLt(lb, la) THEN 1
      ELSE IF StrLt(b, a) THEN -1
      ELSE IF StrLt(a, b) THEN 1
      ELSE 0

\* Array.prototype.sort is stable: an element is placed after every element
\* already placed that does not compare greater than it
RECURSIVE InsertOption(_, _)
InsertOption(acc, o) ==
  IF acc = <<>> THEN <<o>>
  ELSE IF localeCompare(acc[Len(acc)].label, o.label) > 0
       THEN Append(InsertOption(SubSeq(acc, 1, Len(acc) - 1), o), acc[Len(acc)])
       ELSE Append(acc, o)

RECURSIVE SortOptions(_, _)
SortOptions(acc, rest) ==
  IF rest = <<>> THEN acc
  ELSE SortOptions(InsertOption(acc, Head(rest)), Tail(rest))

\* the Map of code -> label: the first flight with a code sets its label
RECURSIVE OptionMap(_, _)
OptionMap(m, entries) ==
  IF entries = <<>> THEN m
  ELSE IF \E i \in DOMAIN m : m[i].value = Head(entries).value
       THEN OptionMap(m, Tail(entries))
       ELSE OptionMap(Append(m, Head(entries)), Tail(entries))

OptionOf(code, name) ==
  [value |-> code, label |-> code \o S(" -- ") \o (IF Truthy(name) THEN name ELSE code)]

\* mutant of departureOptions: the destination filter is not applied
departureOptions_anyDestination(base, st, dest) ==
  LET code(f) == toUpperCase(OrEmpty(f.origin_iata))
      keep(r) ==
        LET f == Heap(r)
        IN  /\ Truthy(code(f))
            /\ ~(Truthy(st) /\ StatusOf(f) # toLowerCase(st))
      kept == SelectSeq(base, keep)
      entries == [i \in DOMAIN kept |->
                    OptionOf(code(Heap(kept[i])), Heap(kept[i]).origin_name)]
  IN  SortOptions(<<>>, OptionMap(<<>>, entries))

departureOptions(base, st, dest) ==
  LET code(f) == toUpperCase(OrEmpty(f.origin_iata))
      keep(r) ==
        LET f == Heap(r)
        IN  /\ Truthy(code(f))
            /\ ~(Truthy(dest) /\ toUpperCase(OrEmpty(f.destination_iata)) # toUpperCase(dest))
            /\ ~(Truthy(st) /\ StatusOf(f) # toLowerCase(st))
      kept == SelectSeq(base, keep)
      entries == [i \in DOMAIN kept |->
                    OptionOf(code(Heap(kept[i])), Heap(kept[i]).origin_name)]
  IN  SortOptions(<<>>, OptionMap(<<>>, entries))

\* mutant of destinationOptions: the origin filter is not applied
destinationOptions_anyOrigin(base, st, orig) ==
  LET code(f) == toUpperCase(OrEmpty(f.destination_iata))
      keep(r) ==
        LET f == Heap(r)
        IN  /\ Truthy(code(f))
            /\ ~(Truthy(st) /\ StatusOf(f) # toLowerCase(st))
      kept == SelectSeq(base, keep)
      entries == [i \in DOMAIN kept |->
                    OptionOf(code(Heap(kept[i])), Heap(kept[i]).destination_name)]
  IN  SortOptions(<<>>, OptionMap(<<>>, entries))

destinationOptions(base, st, orig) ==
  LET code(f) == toUpperCase(OrEmpty(f.destination_iata))
      keep(r) ==
        LET f == Heap(r)
        IN  /\ Truthy(code(f))
            /\ ~(Truthy(orig) /\ toUpperCase(OrEmpty(f.origin_iata)) # toUpperCase(orig))
            /\ ~(Truthy(st) /\ StatusOf(f) # toLowerCase(st))
      kept == SelectSeq(base, keep)
      entries == [i \in DOMAIN kept |->
                    OptionOf(code(Heap(kept[i])), Heap(kept[i]).destination_name)]
  IN  SortOptions(<<>>, OptionMap(<<>>, entries))

RECURSIVE InsertString(_, _)
InsertString(acc, s) ==
  IF acc = <<>> THEN <<s>>
  ELSE IF localeCompare(acc[Len(acc)], s) > 0
       THEN Append(InsertString(SubSeq(acc, 1, Len(acc) - 1), s), acc[Len(acc)])
       ELSE Append(acc, s)

RECURSIVE AircraftSet(_, _)
AircraftSet(acc, base) ==
  IF base = <<>> THEN acc
  ELSE LET a == Heap(Head(base)).aircraft
       IN  IF Truthy(a) /\ Truthy(trim(a)) /\ ~(\E i \in DOMAIN acc : acc[i] = trim(a))
           THEN AircraftSet(InsertString(acc, trim(a)), Tail(base))
           ELSE AircraftSet(acc, Tail(base))

aircraftOptions(base) == AircraftSet(<<>>, base)

OptionValues(opts) == {opts[i].value : i \in DOMAIN opts}

\* the callback of filtered: does flight f pass filter state fs at time t
Matches(f, fs, t) ==
  LET depMs == IF Truthy(f.departure_ts) THEN DateParse(f.departure_ts, 0) ELSE 0
  IN  /\ ~(TruthyNum(depMs) /\ NumLt(depMs, t))
      /\ ~(Truthy(fs.status) /\ StatusOf(f) # toLowerCase(fs.status))
      /\ ~(Truthy(fs.from) /\ toUpperCase(OrEmpty(f.origin_iata)) # toUpperCase(fs.from))
      /\ ~(Truthy(fs.to) /\ toUpperCase(OrEmpty(f.destination_iata)) # toUpperCase(fs.to))
      /\ ~(Truthy(fs.date) /\ slice(OrEmpty(f.departure_ts), 0, 10) # fs.date)
      /\ ~(/\ Truthy(fs.maxPrice)
           /\ Number(fs.maxPrice) # NaN
           /\ NumGt(priceToNumber(f.price_current, f.price_normal), Number(fs.maxPrice)))
      /\ ~(Truthy(fs.aircraft) /\ OrEmpty(f.aircraft) # fs.aircraft)

filteredOf(base, fs, t) == SelectSeq(base, LAMBDA r : Matches(Heap(r), fs, t))

\* mutant of SortKeyOf: a missing timestamp is keyed above every text
SortKeyOf_missingHigh(f, key) ==
  CASE key = "price" -> priceToNumber(f.price_current, f.price_normal)
    [] key = "seen" -> IF Truthy(f.last_seen_at) THEN f.last_seen_at ELSE <<65535>>
    [] OTHER -> IF Truthy(f.departure_ts) THEN f.departure_ts ELSE <<65535>>

\* the comparator of sorted
SortKeyOf(f, key) ==
  CASE key = "price" -> priceToNumber(f.price_current, f.price_normal)
    [] key = "seen" -> OrEmpty(f.last_seen_at)
    [] OTHER -> OrEmpty(f.departure_ts)

KeyLt(A, B, key) == IF key = "price" THEN A < B ELSE StrLt(A, B)

\* mutant of Compare: the comparator never answers 0
Compare_noTie(a, b, key, dir) ==
  LET A == SortKeyOf(a, key)
      B == SortKeyOf(b, key)
  IN  IF KeyLt(A, B, key) THEN (IF dir = "asc" THEN -1 ELSE 1)
      ELSE (IF dir = "asc" THEN 1 ELSE -1)

Compare(a, b, key, dir) ==
  LET A == SortKeyOf(a, key)
      B == SortKeyOf(b, key)
  IN  IF KeyLt(A, B, key) THEN (IF dir = "asc" THEN -1 ELSE 1)
      ELSE IF KeyLt(B, A, key) THEN (IF dir = "asc" THEN 1 ELSE -1)
      ELSE 0

RECURSIVE InsertFlight(_, _, _, _)
InsertFlight(acc, r, key, dir) ==
  IF acc = <<>> THEN <<r>>
  ELSE IF Compare(Heap(acc[Len(acc)]), Heap(r), key, dir) > 0
       THEN Append(InsertFlight(SubSeq(acc, 1, Len(acc) - 1), r, key, dir),
                   acc[Len(acc)])
       ELSE Append(acc, r)

RECURSIVE SortFlights(_, _, _, _)
SortFlights(acc, rest, key, dir) ==
  IF rest = <<>> THEN acc
  ELSE SortFlights(InsertFlight(acc, Head(rest), key, dir), Tail(rest), key, dir)

sortedOf(filt, key, dir) == SortFlights(<<>>, filt, key, dir)

totalPagesOf(total) == Max(1, CeilDiv(total, pageSize))
\* mutant of currentPageOf: the page state is used as it is
currentPageOf_raw(p, tp) == p

currentPageOf(p, tp) == Min(p, tp)
\* mutant of pageItemsOf: the slice takes one flight more
pageItemsOf_oneMore(srt, cp) ==
  LET start == (cp - 1) * pageSize
  IN  slice(srt, start, start + pageSize + 1)

pageItemsOf(srt, cp) ==
  LET start == (cp - 1) * pageSize
  IN  slice(srt, start, start + pageSize)

\* paginate: total, totalPages, currentPage and pageItems of one render
Paginate(srt, p) ==
  LET total == Len(srt)
      totalPages == totalPagesOf(total)
      currentPage == currentPageOf(p, totalPages)
  IN  [total |-> total, totalPages |-> totalPages, currentPage |-> currentPage,
       pageItems |-> pageItemsOf(srt, currentPage)]

(***************************************************************************)
(* utils/time.ts                                                           *)
(***************************************************************************)
\* 24 * 3600 * 1000 ms, in hours
DayMs == 24

\* what a call that throws yields
Thrown == << -2 >>

\* hours east of UTC of an IANA zone at instant x (the zone rules of the
\* months of the model: Central European Summer Time runs from 2025-03-30
\* 01:00 UTC to 2025-10-26 01:00 UTC)
UtcOffset(tz, x) ==
  IF tz = S("Europe/Berlin")
  THEN (IF x >= 484249 /\ x < 489289 THEN 2 ELSE 1)
  ELSE 0

\* String.prototype.replace(" ", "T"): the first space becomes a T
RECURSIVE ReplaceSpace(_)
ReplaceSpace(s) ==
  IF s = <<>> THEN <<>>
  ELSE IF Head(s) = 32 THEN <<84>> \o Tail(s)
  ELSE <<Head(s)>> \o ReplaceSpace(Tail(s))

\* sys is the viewer's system timezone, which a timestamp without a zone is
\* read in
parsePgTimestamptz(ts, sys) ==
  LET normalized == ReplaceSpace(ts)
  IN  DateParse(normalized, UtcOffset(sys, DateParse(normalized, 0)))

TwoDigitText(n) == <<48 + (n \div 10), 48 + (n % 10)>>

\* Intl.DateTimeFormat("en-CA", {timeZone, year, month, day}).format(x):
\* YYYY-MM-DD of x in zone tz; an Invalid Date makes format throw
ymd(x, tz) ==
  IF x = NaN THEN Thrown
  ELSE LET local == x + UtcOffset(tz, x)
           m == CHOOSE k \in DOMAIN Months :
                  /\ Months[k].start <= local
                  /\ local < Months[k].start + Months[k].days * 24
       IN  Months[m].prefix \o <<45>> \o TwoDigitText((local - Months[m].start) \div 24 + 1)

\* dayLabel(ts, tz) called at instant t0 by a viewer whose system zone is sys
dayLabel(ts, tz, t0, sys) ==
  LET d == parsePgTimestamptz(ts, sys)
      zone == IF Truthy(tz) THEN tz ELSE sys
      today == ymd(t0, zone)
      tomorrow == ymd(t0 + DayMs, zone)
      dateStr == ymd(d, zone)
  IN  IF dateStr = Thrown THEN Thrown
      ELSE IF dateStr = today THEN S("Today")
      ELSE IF dateStr = tomorrow THEN S("Tomorrow")
      ELSE S("Upcoming")

\* the month of the model a local hour falls in
MonthOf(local) ==
  CHOOSE k \in DOMAIN Months :
    /\ Months[k].start <= local
    /\ local < Months[k].start + Months[k].days * 24

\* Intl.DateTimeFormat(undefined, {timeZone, year: "numeric", month: "short",
\* day: "2-digit"}).format(x) in the locale en-US: "Mar 29, 2025"; an
\* Invalid Date makes format throw a RangeError
FormatDate(x, zone) ==
  IF x = NaN THEN Thrown
  ELSE LET local == x + UtcOffset(zone, x)
           m == MonthOf(local)
       IN  Months[m].short \o <<32>>
             \o TwoDigitText((local - Months[m].start) \div 24 + 1)
             \o S(", ") \o SubSeq(Months[m].prefix, 1, 4)

\* formatLocal(ts, tz, opts) with the options of formatLocalDate; a null ts
\* makes ts.replace throw a TypeError
formatLocalDate(ts, tz, sys) ==
  IF ts = Null THEN Thrown
  ELSE FormatDate(parsePgTimestamptz(ts, sys), IF Truthy(tz) THEN tz ELSE sys)

\* the short name of a zone at instant x, in the locale en-US
TimeZoneName(zone, x) ==
  IF zone = S("Europe/Berlin")
  THEN (IF UtcOffset(zone, x) = 2 THEN S("GMT+2") ELSE S("GMT+1"))
  ELSE S("UTC")

\* formatToParts(d) with hour/minute 2-digit, hour12: false and the short
\* zone name, joined as `${hh}:${mm} ${tzs}`.trim(); the instants of the
\* model are whole hours, so the minutes are 00
formatLocalTimeWithTz(ts, tz, sys) ==
  IF ts = Null THEN Thrown
  ELSE LET d == parsePgTimestamptz(ts, sys)
           zone == IF Truthy(tz) THEN tz ELSE sys
       IN  IF d = NaN THEN Thrown
           ELSE LET local == d + UtcOffset(zone, d)
                IN  trim(TwoDigitText(local % 24) \o S(":00") \o <<32>>
                           \o TimeZoneName(zone, d))

\* U+2014, the placeholder LocalTime and FlightCard render for no value
EmDash == <<8212>>

\* the text the component LocalTime renders (not stacked); toISOString of
\* an Invalid Date throws a RangeError
LocalTime(ts, tz, sys) ==
  IF ~Truthy(ts) THEN EmDash
  ELSE LET d == parsePgTimestamptz(ts, sys)
           dateStr == formatLocalDate(ts, IF Truthy(tz) THEN tz ELSE Null, sys)
           timeStr == formatLocalTimeWithTz(ts, IF Truthy(tz) THEN tz ELSE Null, sys)
       IN  IF d = NaN THEN Thrown
           ELSE dateStr \o S(", ") \o timeStr

\* FlightCard's fmtDate(ts): new Date(ts) formatted in the viewer's zone;
\* the RangeError of an Invalid Date is caught
fmtDate(ts, sys) ==
  IF ~Truthy(ts) THEN EmDash
  ELSE LET r == FormatDate(DateParse(ts, UtcOffset(sys, DateParse(ts, 0))), sys)
       IN  IF r = Thrown THEN EmDash ELSE r

\* FlightCard's fmtTime(ts): hour and minute, 2-digit, in the viewer's zone
\* (12-hour clock of the locale en-US)
fmtTime(ts, sys) ==
  IF ~Truthy(ts) THEN EmDash
  ELSE LET d == DateParse(ts, UtcOffset(sys, DateParse(ts, 0)))
       IN  IF d = NaN THEN EmDash
           ELSE LET h == (d + UtcOffset(sys, d)) % 24
                IN  TwoDigitText(((h + 11) % 12) + 1) \o S(":00") \o <<32>>
                      \o (IF h < 12 THEN S("AM") ELSE S("PM"))

(***************************************************************************)
(* The listing page: the state of the component Home.                      *)
(***************************************************************************)
VARIABLES
  flights,      \* useState<Flight[]>([])
  loading,      \* useState(true)
  error,        \* useState("")
  status,       \* filter: "", "available", "pending"
  from,         \* filter: origin code
  to,           \* filter: destination code
  date,         \* filter: YYYY-MM-DD
  maxPrice,     \* filter: text of the number input
  aircraft,     \* filter: aircraft label
  sortKey,      \* "departure", "price", "seen"
  sortDir,      \* "asc", "desc"
  page,         \* useState(1)
  filtered,     \* the value useMemo holds for filtered
  effectDeps,   \* the dependencies the page-reset effect last ran with
  fetchPc,      \* the fetch effect: "idle", "pending", "settled"
  cancelled,    \* the cancelled flag of the fetch effect (set by its cleanup)
  now,          \* Date.now(), in hours
  call          \* an invocation of one of the pure functions, see below

filterVars == <<status, from, to, date, maxPrice, aircraft>>
sortVars == <<sortKey, sortDir>>
dataVars == <<flights, loading, error>>
pageVars == <<flights, loading, error, status, from, to, date, maxPrice, aircraft,
              sortKey, sortDir, page, filtered, effectDeps, fetchPc, cancelled, now>>
vars == <<pageVars, call>>

\* bound: the clock runs from 1 to MaxNow
MaxNow == 2

\* the values the date and max-price inputs are given
Dates == {S(""), S("1970-01-02")}
MaxPrices == {S(""), S("5")}
Statuses == {S(""), S("available"), S("pending")}
SortKeys == {"departure", "price", "seen"}
SortDirs == {"asc", "desc"}

NoCall == [fn |-> "none"]

FilterState ==
  [status |-> status, from |-> from, to |-> to, date |-> date,
   maxPrice |-> maxPrice, aircraft |-> aircraft]

\* what one render derives from the state
BaseFlights == baseFlights(flights)
DepartureOptions == departureOptions(BaseFlights, status, to)
DestinationOptions == destinationOptions(BaseFlights, status, from)
AircraftOptions == aircraftOptions(BaseFlights)
Sorted == sortedOf(filtered, sortKey, sortDir)
Total == Len(Sorted)
TotalPages == totalPagesOf(Total)
CurrentPage == currentPageOf(page, TotalPages)
PageItems == pageItemsOf(Sorted, CurrentPage)

\* mutant of ResetDeps: the dependency list of the earlier revisions of the
\* page, without maxPrice and aircraft
ResetDeps_noPriceAircraft == <<status, from, to, date, sortKey, sortDir>>

\* the dependency list of the page-reset effect
ResetDeps == <<status, from, to, date, maxPrice, aircraft, sortKey, sortDir>>

\* the component is mounted and its effects have been flushed: React runs
\* the pending effects of a render before it handles the next event
Settled == ~cancelled /\ fetchPc # "idle" /\ effectDeps = ResetDeps

\* useMemo of filtered: recomputed, at the current time, by a render in
\* which a dependency changed
Rerender ==
  filtered' = IF FilterState' # FilterState
              THEN filteredOf(baseFlights(flights), FilterState', now)
              ELSE filtered

PageInit ==
  /\ flights = <<>>
  /\ loading = TRUE
  /\ error = ""
  /\ status = S("") /\ from = S("") /\ to = S("")
  /\ date = S("") /\ maxPrice = S("") /\ aircraft = S("")
  /\ sortKey = "departure" /\ sortDir = "asc"
  /\ page = 1
  /\ filtered = <<>>
  /\ effectDeps = Null
  /\ fetchPc = "idle"
  /\ cancelled = FALSE
  /\ now = 1

Init == PageInit /\ call = NoCall

\* the fetch effect on mount: run() up to its first await
StartFetch ==
  /\ ~cancelled /\ fetchPc = "idle"
  /\ error' = ""
  /\ loading' = TRUE
  /\ fetchPc' = "pending"
  /\ UNCHANGED <<flights, filterVars, sortVars, page, filtered, effectDeps,
                 cancelled, now, call>>

\* useEffect(() => setPage(1), [status, from, to, date, maxPrice, aircraft,
\* sortKey, sortDir]): runs after the first render and after every render
\* in which a dependency changed
PageResetEffect ==
  /\ ~cancelled /\ fetchPc # "idle"
  /\ effectDeps # ResetDeps
  /\ page' = 1
  /\ effectDeps' = ResetDeps
  /\ UNCHANGED <<dataVars, filterVars, sortVars, filtered, fetchPc, cancelled,
                 now, call>>

\* mutant of FetchOk: the success path leaves loading as it is
FetchOk_keepsLoading(n) ==
  /\ fetchPc = "pending"
  /\ cancelled \/ effectDeps = ResetDeps
  /\ fetchPc' = "settled"
  /\ IF ~cancelled
     THEN /\ flights' = Response(n)
          /\ filtered' = filteredOf(baseFlights(flights'), FilterState, now)
     ELSE UNCHANGED <<flights, filtered>>
  /\ UNCHANGED <<loading, error, filterVars, sortVars, page, effectDeps, cancelled,
                 now, call>>

\* the response is ok and its body is the array of the first n feed objects
FetchOk(n) ==
  /\ fetchPc = "pending"
  /\ cancelled \/ effectDeps = ResetDeps
  /\ fetchPc' = "settled"
  /\ IF ~cancelled
     THEN /\ flights' = Response(n)
          /\ loading' = FALSE
          /\ filtered' = filteredOf(baseFlights(flights'), FilterState, now)
     ELSE UNCHANGED <<flights, loading, filtered>>
  /\ UNCHANGED <<error, filterVars, sortVars, page, effectDeps, cancelled, now, call>>

\* the response is ok and its body is JSON that is not an array
FetchNotArray ==
  /\ fetchPc = "pending"
  /\ cancelled \/ effectDeps = ResetDeps
  /\ fetchPc' = "settled"
  /\ IF ~cancelled
     THEN /\ flights' = <<>>
          /\ loading' = FALSE
          /\ filtered' = filteredOf(baseFlights(flights'), FilterState, now)
     ELSE UNCHANGED <<flights, loading, filtered>>
  /\ UNCHANGED <<error, filterVars, sortVars, page, effectDeps, cancelled, now, call>>

\* fetch rejects, the response is not ok, or its body is not JSON
FetchFail ==
  /\ fetchPc = "pending"
  /\ cancelled \/ effectDeps = ResetDeps
  /\ fetchPc' = "settled"
  /\ IF ~cancelled
     THEN /\ error' = "Failed to load flights"
          /\ flights' = <<>>
          /\ loading' = FALSE
          /\ filtered' = filteredOf(baseFlights(flights'), FilterState, now)
     ELSE UNCHANGED <<flights, loading, error, filtered>>
  /\ UNCHANGED <<filterVars, sortVars, page, effectDeps, cancelled, now, call>>

\* the cleanup of the fetch effect, run when the component is unmounted.
\* An unmount after the fetch has settled ends the page with nothing of it
\* left to run, and is not modelled.
Unmount ==
  /\ ~cancelled /\ fetchPc = "pending"
  /\ cancelled' = TRUE
  /\ UNCHANGED <<dataVars, filterVars, sortVars, page, filtered, effectDeps,
                 fetchPc, now, call>>

\* FiltersDrawer: the status select
SetStatus(v) ==
  /\ Settled
  /\ status' = v
  /\ UNCHANGED <<from, to, date, maxPrice, aircraft>>
  /\ Rerender
  /\ UNCHANGED <<dataVars, sortVars, page, effectDeps, fetchPc, cancelled, now, call>>

\* FiltersDrawer: the departure select offers "Any" and departureOptions
SelectFrom(value) ==
  /\ Settled
  /\ from' = value
  /\ to' = IF /\ Truthy(value) /\ Truthy(to)
              /\ ~(\E i \in DOMAIN DestinationOptions : DestinationOptions[i].value = to)
           THEN S("") ELSE to
  /\ UNCHANGED <<status, date, maxPrice, aircraft>>
  /\ Rerender
  /\ UNCHANGED <<dataVars, sortVars, page, effectDeps, fetchPc, cancelled, now, call>>

\* FiltersDrawer: the destination select offers "Any" and destinationOptions
SelectTo(value) ==
  /\ Settled
  /\ to' = value
  /\ from' = IF /\ Truthy(value) /\ Truthy(from)
                /\ ~(\E i \in DOMAIN DepartureOptions : DepartureOptions[i].value = from)
             THEN S("") ELSE from
  /\ UNCHANGED <<status, date, maxPrice, aircraft>>
  /\ Rerender
  /\ UNCHANGED <<dataVars, sortVars, page, effectDeps, fetchPc, cancelled, now, call>>

SetDate(v) ==
  /\ Settled
  /\ date' = v
  /\ UNCHANGED <<status, from, to, maxPrice, aircraft>>
  /\ Rerender
  /\ UNCHANGED <<dataVars, sortVars, page, effectDeps, fetchPc, cancelled, now, call>>

SetMaxPrice(v) ==
  /\ Settled
  /\ maxPrice' = v
  /\ UNCHANGED <<status, from, to, date, aircraft>>
  /\ Rerender
  /\ UNCHANGED <<dataVars, sortVars, page, effectDeps, fetchPc, cancelled, now, call>>

\* FiltersDrawer: the aircraft select offers "Any" and aircraftOptions
SetAircraft(v) ==
  /\ Settled
  /\ aircraft' = v
  /\ UNCHANGED <<status, from, to, date, maxPrice>>
  /\ Rerender
  /\ UNCHANGED <<dataVars, sortVars, page, effectDeps, fetchPc, cancelled, now, call>>

resetFilters ==
  /\ Settled
  /\ status' = S("") /\ from' = S("") /\ to' = S("")
  /\ date' = S("") /\ maxPrice' = S("") /\ aircraft' = S("")
  /\ Rerender
  /\ UNCHANGED <<dataVars, sortVars, page, effectDeps, fetchPc, cancelled, now, call>>

SetSortKey(k) ==
  /\ Settled
  /\ sortKey' = k
  /\ UNCHANGED <<dataVars, filterVars, sortDir, page, filtered, effectDeps,
                 fetchPc, cancelled, now, call>>

SetSortDir(d) ==
  /\ Settled
  /\ sortDir' = d
  /\ UNCHANGED <<dataVars, filterVars, sortKey, page, filtered, effectDeps,
                 fetchPc, cancelled, now, call>>

\* the Back button: setPage((p) => Math.max(1, p - 1))
Back ==
  /\ Settled /\ ~loading /\ error = ""
  /\ LET total == Total
     IN  /\ total # 0
         /\ ~(currentPageOf(page, totalPagesOf(total)) <= 1)
  /\ page' = Max(1, page - 1)
  /\ UNCHANGED <<dataVars, filterVars, sortVars, filtered, effectDeps, fetchPc,
                 cancelled, now, call>>

\* the Next button: setPage((p) => Math.min(totalPages, p + 1))
NextPage ==
  /\ Settled /\ ~loading /\ error = ""
  /\ LET total == Total
         totalPages == totalPagesOf(total)
     IN  /\ total # 0
         /\ ~(currentPageOf(page, totalPages) >= totalPages)
         /\ page' = Min(totalPages, page + 1)
  /\ UNCHANGED <<dataVars, filterVars, sortVars, filtered, effectDeps, fetchPc,
                 cancelled, now, call>>

\* time passes
Tick ==
  /\ now < MaxNow
  /\ now' = now + 1
  /\ UNCHANGED <<dataVars, filterVars, sortVars, page, filtered, effectDeps,
                 fetchPc, cancelled, call>>

Next ==
  \/ StartFetch
  \/ PageResetEffect
  \/ \E n \in RespLens : FetchOk(n)
  \/ FetchNotArray
  \/ FetchFail
  \/ Unmount
  \/ \E v \in Statuses : SetStatus(v)
  \/ Settled /\ \E v \in {S("")} \cup OptionValues(DepartureOptions) : SelectFrom(v)
  \/ Settled /\ \E v \in {S("")} \cup OptionValues(DestinationOptions) : SelectTo(v)
  \/ \E v \in Dates : SetDate(v)
  \/ \E v \in MaxPrices : SetMaxPrice(v)
  \/ Settled /\ \E v \in {S("")} \cup {AircraftOptions[i] : i \in DOMAIN AircraftOptions} :
                  SetAircraft(v)
  \/ resetFilters
  \/ \E k \in SortKeys : SetSortKey(k)
  \/ \E d \in SortDirs : SetSortDir(d)
  \/ Back
  \/ NextPage
  \/ Tick

Spec == Init /\ [][Next]_vars

(***************************************************************************)
(* Invocations of the pure functions.  call holds the arguments of one     *)
(* invocation and, once it has run, its result; the page stays in its      *)
(* initial state.                                                          *)
(***************************************************************************)
\* bounds of the arguments
PgMaxLen == 25
PgMaxPage == 4
SortMaxLen == 3
SortMaxRef == 7
NowSpan == 30
TsSpan == 60

\* paginate(sorted, page): lists of 0 .. PgMaxLen flights, pages -1 .. PgMaxPage
InitPaginate ==
  /\ PageInit
  /\ \E n \in 0 .. PgMaxLen, p \in -1 .. PgMaxPage :
       call = [fn |-> "paginate", sorted |-> Response(n), page |-> p,
               done |-> FALSE, out |-> Paginate(<<>>, 1)]

DoPaginate ==
  /\ call.fn = "paginate" /\ ~call.done
  /\ call' = [call EXCEPT !.done = TRUE, !.out = Paginate(call.sorted, call.page)]
  /\ UNCHANGED pageVars

SpecPaginate == InitPaginate /\ [][DoPaginate]_vars

\* the array the callback of sorted sorts and returns: arr, the new array
\* made by [...filtered]
SortedArray_inPlace == "filtered"
SortedArray == "arr"

\* injective sequences over 1 .. SortMaxRef of length at most SortMaxLen
RECURSIVE Arrangements(_)
Arrangements(n) ==
  IF n = 0 THEN {<<>>}
  ELSE LET shorter == Arrangements(n - 1)
       IN  shorter \cup
           {Append(s, r) : s \in {x \in shorter : Len(x) = n - 1}, r \in 1 .. SortMaxRef}

SortInputs == {s \in Arrangements(SortMaxLen) : \A i, j \in DOMAIN s : i # j => s[i] # s[j]}

\* sorted: the arrays are named, so that sorting one array in place is
\* distinguished from sorting a copy of it
InitSort ==
  /\ PageInit
  /\ \E s \in SortInputs, k \in SortKeys, d \in SortDirs :
       call = [fn |-> "sorted", input |-> s, key |-> k, dir |-> d,
               arrays |-> [filtered |-> s, arr |-> <<>>],
               done |-> FALSE, out |-> "arr"]

DoSort ==
  /\ call.fn = "sorted" /\ ~call.done
  /\ LET arr == SortedArray
         copied == [call.arrays EXCEPT ![arr] = call.arrays.filtered]
         sorted == [copied EXCEPT ![arr] = sortedOf(copied[arr], call.key, call.dir)]
     IN  call' = [call EXCEPT !.done = TRUE, !.arrays = sorted, !.out = arr]
  /\ UNCHANGED pageVars

SpecSort == InitSort /\ [][DoSort]_vars

\* the text YYYY-MM-DDTHH:00:00Z of instant x
TsText(x) == ymd(x, S("UTC")) \o <<84>> \o TwoDigitText(x % 24) \o S(":00:00Z")

\* the hours the calls start from: 2025-03-29 and 2025-10-25, 00:00 UTC,
\* the days before the two clock changes of Europe/Berlin
DayBases == {484224, 489264}
Zones == {S("UTC"), S("Europe/Berlin")}

\* dayLabel(ts, tz) called at instant now
InitDay ==
  /\ PageInit
  /\ \E b \in DayBases, n \in 0 .. NowSpan, x \in 0 .. TsSpan, z \in Zones :
       call = [fn |-> "dayLabel", ts |-> TsText(b + x), tz |-> z, now |-> b + n,
               sys |-> S("UTC"), done |-> FALSE, out |-> <<>>]

DoDayLabel ==
  /\ call.fn = "dayLabel" /\ ~call.done
  /\ call' = [call EXCEPT !.done = TRUE,
                          !.out = dayLabel(call.ts, call.tz, call.now, call.sys)]
  /\ UNCHANGED pageVars

SpecDay == InitDay /\ [][DoDayLabel]_vars

(***************************************************************************)
(* The time helpers, the component LocalTime and FlightCard's formatters,  *)
(* called with a timestamp text ts, the record's zone tz ("" when the      *)
(* record has none) and the viewer's system zone sys, at instant now.      *)
(***************************************************************************)
TmSpan == 26
TmNow == 1

\* the texts of instant x: ISO with Z, space-separated with no offset,
\* ISO with no offset, space-separated with Z
TsForms(x) ==
  LET day == ymd(x, S("UTC"))
      hms == TwoDigitText(x % 24) \o S(":00:00")
  IN  { day \o <<84>> \o hms \o <<90>>,
        day \o <<32>> \o hms,
        day \o <<84>> \o hms,
        day \o <<32>> \o hms \o <<90>> }

\* an unparseable text, the empty text, no text
BadTs == {S("soon"), <<>>, Null}

TimeFns == {"parsePgTimestamptz", "dayLabel", "formatLocalDate",
            "formatLocalTimeWithTz", "LocalTime", "fmtDate", "fmtTime"}

InitTime ==
  /\ PageInit
  /\ \E f \in TimeFns, b \in DayBases, n \in 0 .. TmNow, z \in {<<>>} \cup Zones,
        y \in Zones :
       \E s \in BadTs \cup UNION {TsForms(b + x) : x \in 0 .. TmSpan} :
         call = [fn |-> f, ts |-> s, tz |-> z, now |-> b + 22 + n, sys |-> y,
                 done |-> FALSE, out |-> <<>>]

Return(v) ==
  /\ ~call.done
  /\ call' = [call EXCEPT !.done = TRUE, !.out = v]
  /\ UNCHANGED pageVars

\* the instant is returned as a one-element tuple
DoParse ==
  /\ call.fn = "parsePgTimestamptz"
  /\ Return(IF call.ts = Null THEN Thrown
            ELSE <<parsePgTimestamptz(call.ts, call.sys)>>)

DoFormatLocalDate ==
  /\ call.fn = "formatLocalDate"
  /\ Return(formatLocalDate(call.ts, call.tz, call.sys))

DoFormatLocalTimeWithTz ==
  /\ call.fn = "formatLocalTimeWithTz"
  /\ Return(formatLocalTimeWithTz(call.ts, call.tz, call.sys))

DoLocalTime ==
  /\ call.fn = "LocalTime"
  /\ Return(LocalTime(call.ts, call.tz, call.sys))

DoFmtDate ==
  /\ call.fn = "fmtDate"
  /\ Return(fmtDate(call.ts, call.sys))

DoFmtTime ==
  /\ call.fn = "fmtTime"
  /\ Return(fmtTime(call.ts, call.sys))

SpecTime ==
  InitTime /\ [][DoParse \/ DoDayLabel \/ DoFormatLocalDate
                   \/ DoFormatLocalTimeWithTz \/ DoLocalTime
                   \/ DoFmtDate \/ DoFmtTime]_vars

(***************************************************************************)
(* FlightCard for the legacy record shape: splitRoute, splitTimes and the  *)
(* codes, names and times the card shows.                                  *)
(***************************************************************************)
IsString(v) == v # Null /\ v # Undefined /\ v # NotAString

airportNames ==
  << [code |-> S("IBZ"), name |-> S("Ibiza")],
     [code |-> S("ZRH"), name |-> S("Zuerich")],
     [code |-> S("AMS"), name |-> S("Amsterdam")],
     [code |-> S("FRA"), name |-> S("Frankfurt")],
     [code |-> S("LHR"), name |-> S("London Heathrow")] >>

\* airportNames[code]: undefined for a code the table does not hold
AirportName(code) ==
  IF \E i \in DOMAIN airportNames : airportNames[i].code = code
  THEN airportNames[CHOOSE i \in DOMAIN airportNames : airportNames[i].code = code].name
  ELSE Undefined

\* route.split(/U+2192|->|-/): the parts between the separators
RECURSIVE SplitParts(_, _)
SplitParts(s, cur) ==
  IF s = <<>> THEN <<cur>>
  ELSE IF Head(s) = 8594 THEN <<cur>> \o SplitParts(Tail(s), <<>>)
  ELSE IF Head(s) = 45
       THEN (IF Len(s) >= 2 /\ s[2] = 62
             THEN <<cur>> \o SplitParts(Tail(Tail(s)), <<>>)
             ELSE <<cur>> \o SplitParts(Tail(s), <<>>))
  ELSE SplitParts(Tail(s), Append(cur, Head(s)))

IsAsciiLetter(c) == (c >= 65 /\ c <= 90) \/ (c >= 97 /\ c <= 122)

\* code(s): s.match(/^[A-Za-z]{3}$/) ? s.toUpperCase() : null
CodeOf(s) ==
  IF Len(s) = 3 /\ \A i \in 1 .. 3 : IsAsciiLetter(s[i]) THEN toUpperCase(s) ELSE Null

\* code(raw) || raw.slice(0, 3).toUpperCase()
CodeOrPrefix(raw) ==
  IF Truthy(CodeOf(raw)) THEN CodeOf(raw) ELSE toUpperCase(slice(raw, 0, 3))

\* splitRoute(route = ""): the default replaces undefined only; null.split
\* and (not a string).split throw a TypeError
splitRoute(route) ==
  LET r == IF route = Undefined THEN <<>> ELSE route
  IN  IF ~IsString(r) THEN [thrown |-> TRUE, from_code |-> <<>>, to_code |-> <<>>]
      ELSE LET parts == SplitParts(r, <<>>)
               fromRaw == trim(parts[1])
               toRaw == IF Len(parts) >= 2 THEN trim(parts[2]) ELSE <<>>
           IN  [thrown |-> FALSE,
                from_code |-> CodeOrPrefix(fromRaw),
                to_code |-> CodeOrPrefix(toRaw)]

\* the length of a match of \d{1,2}:\d{2} at position i of s, 0 if none
ClockAt(s, i) ==
  IF /\ i + 3 <= Len(s) /\ IsDigit(s[i]) /\ s[i + 1] = 58
     /\ IsDigit(s[i + 2]) /\ IsDigit(s[i + 3]) THEN 4
  ELSE IF /\ i + 4 <= Len(s) /\ IsDigit(s[i]) /\ IsDigit(s[i + 1]) /\ s[i + 2] = 58
          /\ IsDigit(s[i + 3]) /\ IsDigit(s[i + 4]) THEN 5
  ELSE 0

\* \s*: the first position at or after i that holds no white space
RECURSIVE SkipSpace(_, _)
SkipSpace(s, i) == IF i <= Len(s) /\ s[i] = 32 THEN SkipSpace(s, i + 1) ELSE i

\* the match of /(\d{1,2}:\d{2})\s*[U+2013 -]\s*(\d{1,2}:\d{2})/ that starts at i
RangeAt(s, i) ==
  LET n1 == ClockAt(s, i)
      j == SkipSpace(s, i + n1)
      k == SkipSpace(s, j + 1)
      n2 == ClockAt(s, k)
  IN  IF n1 > 0 /\ j <= Len(s) /\ s[j] \in {8211, 45} /\ n2 > 0
      THEN [found |-> TRUE, dep |-> SubSeq(s, i, i + n1 - 1), arr |-> SubSeq(s, k, k + n2 - 1)]
      ELSE [found |-> FALSE, dep |-> <<>>, arr |-> <<>>]

\* splitTimes(time = "", dep_time, arr_time)
splitTimes(time, dep_time, arr_time) ==
  IF Truthy(dep_time) \/ Truthy(arr_time)
  THEN [thrown |-> FALSE, dep |-> OrEmpty(dep_time), arr |-> OrEmpty(arr_time)]
  ELSE LET t == IF time = Undefined THEN <<>> ELSE time
       IN  IF ~IsString(t) THEN [thrown |-> TRUE, dep |-> <<>>, arr |-> <<>>]
           ELSE IF \E i \in DOMAIN t : RangeAt(t, i).found
                THEN LET i == CHOOSE i \in DOMAIN t :
                                /\ RangeAt(t, i).found
                                /\ \A h \in 1 .. i - 1 : ~RangeAt(t, h).found
                     IN  [thrown |-> FALSE, dep |-> RangeAt(t, i).dep, arr |-> RangeAt(t, i).arr]
                ELSE [thrown |-> FALSE, dep |-> t, arr |-> <<>>]

\* a || b
Or(a, b) == IF Truthy(a) THEN a ELSE b

CardThrown ==
  [thrown |-> TRUE, from_code |-> <<>>, to_code |-> <<>>, from_name |-> <<>>,
   to_name |-> <<>>, dep |-> <<>>, arr |-> <<>>, price |-> <<>>]

\* what the card shows for a record: codes, names, times and the price line
FlightCard(flight) ==
  LET r == splitRoute(flight.route)
      t == splitTimes(flight.time, flight.dep_time, flight.arr_time)
      codeFrom == Or(flight.from_code, r.from_code)
      codeTo == Or(flight.to_code, r.to_code)
  IN  IF r.thrown \/ t.thrown THEN CardThrown
      ELSE [thrown |-> FALSE,
            from_code |-> codeFrom,
            to_code |-> codeTo,
            from_name |-> Or(AirportName(codeFrom), Or(flight.from_name, codeFrom)),
            to_name |-> Or(AirportName(codeTo), Or(flight.to_name, codeTo)),
            dep |-> Or(t.dep, EmDash),
            arr |-> Or(t.arr, EmDash),
            price |-> IF Truthy(flight.price) THEN flight.price
                      ELSE S("Flight not yet confirmed")]

\* the raw records the card is given
Routes == {Undefined, Null, NotAString, <<>>, S("IBZ => ZRH"), S("ibz->zrh"),
           S("Ibiza => Zurich"), S("LA-NY"), S("IBZ"),
           S("IBZ -- ZRH"), S("A-B => ZRH")}
Times == {Undefined, Null, NotAString, <<>>, S("08:30 -- 10:05"), S("8:30-10:05"),
          S("soon")}

InitCard ==
  /\ PageInit
  /\ \E ro \in Routes, ti \in Times,
        fc \in {Undefined, Null, S("zrh"), S("ZRH")}, tc \in {Undefined, S("IBZ")},
        fn \in {Undefined, S("Zurich")},
        dt \in {Undefined, Null, S("09:00")}, at \in {Undefined, S("10:00")},
        pr \in {Undefined, Null, S("990 EUR")} :
       call = [fn |-> "FlightCard",
               flight |-> [route |-> ro, time |-> ti, from_code |-> fc,
                           to_code |-> tc, from_name |-> fn, to_name |-> Undefined,
                           dep_time |-> dt, arr_time |-> at, price |-> pr],
               done |-> FALSE, out |-> CardThrown]

RenderCard ==
  /\ call.fn = "FlightCard" /\ ~call.done
  /\ call' = [call EXCEPT !.done = TRUE, !.out = FlightCard(call.flight)]
  /\ UNCHANGED pageVars

SpecCard == InitCard /\ [][RenderCard]_vars

(***************************************************************************)
(* The pipeline of the listing page as a function of its inputs: the       *)
(* fetched records, the filter state, the sort state and the time of the   *)
(* computation give the sorted listing.                                    *)
(***************************************************************************)
QMaxLen == 3
QMaxRef == 7

\* sequences over 1 .. m of length at most n that hold no reference twice
RECURSIVE InjectiveSeqs(_, _)
InjectiveSeqs(n, m) ==
  IF n = 0 THEN {<<>>}
  ELSE LET shorter == InjectiveSeqs(n - 1, m)
           longest == {x \in shorter : Len(x) = n - 1}
       IN  shorter \cup
           UNION {{Append(s, r) : r \in (1 .. m) \ {s[i] : i \in DOMAIN s}} : s \in longest}

\* baseFlights -> filtered -> sorted
listingOf(fl, fs, key, dir, t) ==
  sortedOf(filteredOf(baseFlights(fl), fs, t), key, dir)

\* the texts of the max price field: empty, a numeral, a word, a blank
PriceTexts == {S(""), S("5"), S("abc"), S(" ")}

\* the choices of the aircraft select
AircraftChoices == {S(""), S("PC-12")}

InitQuery ==
  /\ PageInit
  /\ \E s \in InjectiveSeqs(QMaxLen, QMaxRef), mp \in PriceTexts,
        ac \in AircraftChoices, k \in SortKeys, d \in SortDirs :
       call = [fn |-> "listing", flights |-> s,
               fs |-> [status |-> S(""), from |-> S(""), to |-> S(""),
                       date |-> S(""), maxPrice |-> mp, aircraft |-> ac],
               key |-> k, dir |-> d, now |-> 0, done |-> FALSE, out |-> <<>>]

DoQuery ==
  /\ call.fn = "listing" /\ ~call.done
  /\ call' = [call EXCEPT !.done = TRUE,
                          !.out = listingOf(call.flights, call.fs, call.key,
                                            call.dir, call.now)]
  /\ UNCHANGED pageVars

SpecQuery == InitQuery /\ [][DoQuery]_vars

(***************************************************************************)
(* The listing of app/page.js: the same filter with a free-text query q    *)
(* over the names and codes, no aircraft rule, and no baseFlights step.    *)
(***************************************************************************)
SMaxLen == 2
SMaxRef == 7

\* String.prototype.includes
includes(s, sub) ==
  \E i \in 0 .. Len(s) - Len(sub) : SubSeq(s, i + 1, i + Len(sub)) = sub

\* mutant of SearchSpace: the query is looked for in the names only
SearchSpace_namesOnly(f) ==
  << toLowerCase(OrEmpty(f.origin_name)), toLowerCase(OrEmpty(f.destination_name)) >>

\* oName, dName, oIataLower, dIataLower
SearchSpace(f) ==
  << toLowerCase(OrEmpty(f.origin_name)), toLowerCase(OrEmpty(f.destination_name)),
     toLowerCase(OrEmpty(f.origin_iata)), toLowerCase(OrEmpty(f.destination_iata)) >>

\* the callback of filtered in app/page.js, evaluated at time t
MatchesQuery(f, q, fs, t) ==
  LET qLower == toLowerCase(trim(q))
      dateNorm == trim(fs.date)
      space == SearchSpace(f)
      depTs == IF Truthy(f.departure_ts) THEN DateParse(f.departure_ts, 0) ELSE 0
      p == IF f.price_current # Null THEN f.price_current[1]
           ELSE IF f.price_normal # Null THEN f.price_normal[1]
           ELSE Infinity
  IN  /\ ~(TruthyNum(depTs) /\ NumLt(depTs, t))
      /\ ~(Truthy(qLower) /\ ~\E i \in DOMAIN space : includes(space[i], qLower))
      /\ ~(Truthy(fs.from) /\ toUpperCase(OrEmpty(f.origin_iata)) # toUpperCase(fs.from))
      /\ ~(Truthy(fs.to) /\ toUpperCase(OrEmpty(f.destination_iata)) # toUpperCase(fs.to))
      /\ ~(Truthy(dateNorm) /\ slice(OrEmpty(f.departure_ts), 0, 10) # dateNorm)
      /\ ~(/\ Truthy(fs.maxPrice)
           /\ Number(fs.maxPrice) # NaN
           /\ NumGt(p, Number(fs.maxPrice)))
      /\ ~(Truthy(fs.status) /\ StatusOf(f) # toLowerCase(fs.status))

filteredByQuery(fl, q, fs, t) == SelectSeq(fl, LAMBDA r : MatchesQuery(Heap(r), q, fs, t))

\* the texts of the search field
Queries == {S(""), S(" "), S(" Zur "), S("zrh"), S("lon")}

InitSearch ==
  /\ PageInit
  /\ \E s \in InjectiveSeqs(SMaxLen, SMaxRef), qq \in Queries,
        fr \in {S(""), S("ZRH")}, mp \in MaxPrices, st \in Statuses :
       call = [fn |-> "filtered", flights |-> s, q |-> qq,
               fs |-> [status |-> st, from |-> fr, to |-> S(""),
                       date |-> S(""), maxPrice |-> mp],
               now |-> 0, done |-> FALSE, out |-> <<>>]

DoSearch ==
  /\ call.fn = "filtered" /\ ~call.done
  /\ call' = [call EXCEPT !.done = TRUE,
                          !.out = filteredByQuery(call.flights, call.q, call.fs, call.now)]
  /\ UNCHANGED pageVars

SpecSearch == InitSearch /\ [][DoSearch]_vars

(***************************************************************************)
(* The home page (app/page.tsx): it fetches six flights once and shows a   *)
(* skeleton, a notice or a grid of cards.  call holds the state of the     *)
(* component: flights (null until the fetch settles), the position of the  *)
(* fetch, and what the fetch met (outcome, which the page does not keep).  *)
(***************************************************************************)
InitHome ==
  /\ PageInit
  /\ call = [fn |-> "Home", flights |-> Null, pc |-> "idle", outcome |-> "none"]

\* the effect runs run() up to its first await
HomeStartFetch ==
  /\ call.fn = "Home" /\ call.pc = "idle"
  /\ call' = [call EXCEPT !.pc = "pending"]
  /\ UNCHANGED pageVars

HomeSettle(data, met) ==
  /\ call' = [call EXCEPT !.pc = "settled", !.flights = data, !.outcome = met]
  /\ UNCHANGED pageVars

\* a 2xx response whose body is an array of flights
HomeFetchOk(data) ==
  /\ call.fn = "Home" /\ call.pc = "pending"
  /\ HomeSettle(data, "ok")

\* a 2xx response whose body is JSON but not an array
HomeFetchNotArray ==
  /\ call.fn = "Home" /\ call.pc = "pending"
  /\ HomeSettle(<<>>, "ok")

\* a response that is not 2xx: res.ok is not looked at; the body is an
\* error object (not an array) or not JSON (res.json() rejects)
HomeFetchHttpError ==
  /\ call.fn = "Home" /\ call.pc = "pending"
  /\ HomeSettle(<<>>, "http error")

\* a 2xx response whose body is not JSON: res.json() rejects
HomeFetchUnparseable ==
  /\ call.fn = "Home" /\ call.pc = "pending"
  /\ HomeSettle(<<>>, "unparseable body")

\* fetch rejects
HomeFetchNetworkError ==
  /\ call.fn = "Home" /\ call.pc = "pending"
  /\ HomeSettle(<<>>, "network error")

\* what the page shows
HomeView ==
  IF call.flights = Null THEN "skeleton"
  ELSE IF Len(call.flights) = 0 THEN "no flights notice"
  ELSE "grid"

SpecHome ==
  InitHome /\ [][\/ HomeStartFetch
                 \/ \E data \in SortInputs : HomeFetchOk(data)
                 \/ HomeFetchNotArray
                 \/ HomeFetchHttpError
                 \/ HomeFetchUnparseable
                 \/ HomeFetchNetworkError]_vars

(***************************************************************************)
(* The load effect of the earlier listing page (part_003), which fetches   *)
(* two feeds.  call holds the state of the component (globeair, asl,       *)
(* loading, error), the cancelled flag of the effect, the position of      *)
(* load() and the two results of Promise.allSettled.                       *)
(***************************************************************************)
\* bound: a feed delivers at most LoadMaxLen flights
LoadMaxLen == 5

\* the bodies a feed delivers: arrays of flights (a body that is not an
\* array is mapped to the empty array)
LoadBodies == {Response(n) : n \in 0 .. LoadMaxLen}

Settlements == {"fulfilled", "rejected"}

InitLoad ==
  /\ PageInit
  /\ call = [fn |-> "load", pc |-> "idle", cancelled |-> FALSE,
             gaRes |-> "none", aslRes |-> "none",
             globeair |-> <<>>, asl |-> <<>>, loading |-> TRUE, error |-> ""]

\* the effect calls load(), which runs up to await Promise.allSettled
LoadStart ==
  /\ call.fn = "load" /\ call.pc = "idle"
  /\ call' = [call EXCEPT !.pc = "fetching"]
  /\ UNCHANGED pageVars

\* the cleanup of the effect, while load() is suspended at one of its awaits
LoadUnmount ==
  /\ call.fn = "load" /\ call.pc \in {"fetching", "gaJson", "aslJson"}
  /\ ~call.cancelled
  /\ call' = [call EXCEPT !.cancelled = TRUE]
  /\ UNCHANGED pageVars

\* finally: if (!cancelled) setLoading(false)
LoadFinally(c) == [c EXCEPT !.pc = "done",
                            !.loading = IF ~c.cancelled THEN FALSE ELSE c.loading]

\* the part of load() from the test of aslRes.status to its next await or
\* its end
LoadAslPart(c) ==
  IF c.aslRes = "fulfilled" THEN [c EXCEPT !.pc = "aslJson"]
  ELSE LoadFinally(c)

\* Promise.allSettled resolves: load() returns when cancelled is set, else
\* it runs to await gaRes.value.json(), or past the GlobeAir branch
LoadAllSettled(ga, as) ==
  /\ call.fn = "load" /\ call.pc = "fetching"
  /\ LET c == [call EXCEPT !.gaRes = ga, !.aslRes = as]
     IN  call' = IF c.cancelled THEN LoadFinally(c)
                 ELSE IF ga = "fulfilled" THEN [c EXCEPT !.pc = "gaJson"]
                 ELSE LoadAslPart([c EXCEPT !.error =
                                     "Fehler beim Laden der GlobeAir-Daten."])
  /\ UNCHANGED pageVars

\* gaRes.value.json() resolves: setGlobeair, with no test of cancelled
LoadGaJson(data) ==
  /\ call.fn = "load" /\ call.pc = "gaJson"
  /\ call' = LoadAslPart([call EXCEPT !.globeair = data])
  /\ UNCHANGED pageVars

\* the catch block: setError, with no test of cancelled
LoadCatch(c) ==
  LoadFinally([c EXCEPT !.error = "Unerwarteter Fehler beim Laden der Daten."])

\* gaRes.value.json() rejects
LoadGaJsonThrows ==
  /\ call.fn = "load" /\ call.pc = "gaJson"
  /\ call' = LoadCatch(call)
  /\ UNCHANGED pageVars

\* aslRes.value.json() resolves: setAsl, with no test of cancelled
LoadAslJson(data) ==
  /\ call.fn = "load" /\ call.pc = "aslJson"
  /\ call' = LoadFinally([call EXCEPT !.asl = data])
  /\ UNCHANGED pageVars

\* aslRes.value.json() rejects
LoadAslJsonThrows ==
  /\ call.fn = "load" /\ call.pc = "aslJson"
  /\ call' = LoadCatch(call)
  /\ UNCHANGED pageVars

SpecLoad ==
  InitLoad /\ [][\/ LoadStart
                 \/ LoadUnmount
                 \/ \E ga \in Settlements, as \in Settlements : LoadAllSettled(ga, as)
                 \/ \E data \in LoadBodies : LoadGaJson(data)
                 \/ LoadGaJsonThrows
                 \/ \E data \in LoadBodies : LoadAslJson(data)
                 \/ LoadAslJsonThrows]_vars

(***************************************************************************)
(* Claims about the listing page, checked under Spec.                      *)
(***************************************************************************)
\* the status of a record as the specification words it: status_latest,
\* else status, compared without regard to case
IsUnavailable(f) ==
  LET s == IF f.status_latest # Null THEN f.status_latest
           ELSE IF f.status # Null THEN f.status
           ELSE <<>>
  IN  toLowerCase(s) = S("unavailable")

HasStatus(f, st) ==
  LET s == IF f.status_latest # Null THEN f.status_latest
           ELSE IF f.status # Null THEN f.status
           ELSE <<>>
  IN  toLowerCase(s) = toLowerCase(st)

OriginCode(f) == IF f.origin_iata = Null THEN <<>> ELSE toUpperCase(f.origin_iata)
DestinationCode(f) ==
  IF f.destination_iata = Null THEN <<>> ELSE toUpperCase(f.destination_iata)

FlightSet == {flights[i] : i \in DOMAIN flights}

\* C1: no record whose status is 'unavailable' is among pageItems, and every
\* origin option and every destination option is the code of a record that
\* is not unavailable: an unavailable record contributes no option.
C1_UnavailableHidden ==
  /\ LET items == PageItems
     IN  \A i \in DOMAIN items : ~IsUnavailable(Heap(items[i]))
  /\ \A c \in OptionValues(DepartureOptions) :
       \E r \in FlightSet : ~IsUnavailable(Heap(r)) /\ OriginCode(Heap(r)) = c
  /\ \A c \in OptionValues(DestinationOptions) :
       \E r \in FlightSet : ~IsUnavailable(Heap(r)) /\ DestinationCode(Heap(r)) = c

\* C1 witness: the fetched records include unavailable ones, one of them the
\* only record with its origin code, while flights are listed and both option
\* lists are non-empty
C1_Witness ==
  /\ \E r \in FlightSet :
       /\ IsUnavailable(Heap(r))
       /\ \A q \in FlightSet : OriginCode(Heap(q)) = OriginCode(Heap(r)) => IsUnavailable(Heap(q))
  /\ PageItems # <<>>
  /\ DepartureOptions # <<>> /\ DestinationOptions # <<>>

\* C2: a non-empty selected origin is one of the origin options of the
\* current render, and a non-empty selected destination one of the
\* destination options.
C2_SelectionIsOption ==
  /\ Truthy(from) => from \in OptionValues(DepartureOptions)
  /\ Truthy(to) => to \in OptionValues(DestinationOptions)

\* the filter and sort inputs, as the claim lists them
QueryInputs == <<status, from, to, date, maxPrice, aircraft, sortKey, sortDir>>

\* C3: a step that changes a filter or sort input leaves the page with its
\* reset pending (the listing has not settled); the listing settles again
\* only with page = 1; a step that changes the page alone leaves the listing
\* settled (no reset runs after it).
C3_PageReset ==
  [][/\ QueryInputs' # QueryInputs => ~cancelled' /\ ~Settled'
     /\ (~cancelled /\ ~Settled /\ Settled') => page' = 1
     /\ (Settled /\ QueryInputs' = QueryInputs /\ page' # page) => Settled'
    ]_vars

\* C3 witness: on page 2, a filter or sort input has just changed and the
\* reset has not run yet
C3_Witness ==
  /\ ~cancelled /\ fetchPc = "settled"
  /\ effectDeps # Null /\ effectDeps # QueryInputs
  /\ page = 2

\* C5: with origin X selected every destination option is the destination of
\* a record that is not unavailable, has origin X and has the selected status
\* if one is selected; symmetrically for the origin options with destination
\* Y selected.
C5_OptionsReachable ==
  /\ Truthy(from) =>
       \A c \in OptionValues(DestinationOptions) :
         \E r \in FlightSet :
           /\ ~IsUnavailable(Heap(r))
           /\ OriginCode(Heap(r)) = toUpperCase(from)
           /\ DestinationCode(Heap(r)) = c
           /\ Truthy(status) => HasStatus(Heap(r), status)
  /\ Truthy(to) =>
       \A c \in OptionValues(DepartureOptions) :
         \E r \in FlightSet :
           /\ ~IsUnavailable(Heap(r))
           /\ DestinationCode(Heap(r)) = toUpperCase(to)
           /\ OriginCode(Heap(r)) = c
           /\ Truthy(status) => HasStatus(Heap(r), status)

\* C5 witness: an origin is selected, destinations are offered, and a listed
\* record of another origin has a destination that is not offered
C5_Witness ==
  /\ Truthy(from)
  /\ DestinationOptions # <<>>
  /\ \E r \in FlightSet :
       /\ ~IsUnavailable(Heap(r))
       /\ DestinationCode(Heap(r)) # <<>>
       /\ DestinationCode(Heap(r)) \notin OptionValues(DestinationOptions)

\* the records that pass every filter rule of fs at time t
PassAll(fs, t) ==
  {r \in FlightSet : ~IsUnavailable(Heap(r)) /\ Matches(Heap(r), fs, t)}

\* C6: the origin options are the distinct origin codes of the records that
\* pass every active filter rule other than the origin filter, and the
\* destination options those of the records that pass every rule other than
\* the destination filter.
C6_OptionsApplyOtherFilters ==
  /\ OptionValues(DepartureOptions) =
       {OriginCode(Heap(r)) : r \in PassAll([FilterState EXCEPT !.from = <<>>], now)}
         \ {<<>>}
  /\ OptionValues(DestinationOptions) =
       {DestinationCode(Heap(r)) : r \in PassAll([FilterState EXCEPT !.to = <<>>], now)}
         \ {<<>>}

\* C8: computing the listing again from the records, filter state, sort
\* state and page of the current state gives the listing on display.
C8_Deterministic ==
  LET again == sortedOf(filteredOf(baseFlights(flights), FilterState, now),
                        sortKey, sortDir)
  IN  /\ Len(again) = Total
      /\ pageItemsOf(again, currentPageOf(page, totalPagesOf(Len(again)))) = PageItems

\* the departure instant of a record, NaN when it has none
DepartureInstant(f) ==
  IF f.departure_ts = Null THEN NaN ELSE DateParse(f.departure_ts, 0)

\* C9: in a render that computes filtered anew (a filter input changed or
\* the fetch delivered), no record whose departure instant is before the
\* current time is kept.
C9_HidesDeparted ==
  [][(\/ FilterState' # FilterState
      \/ (fetchPc = "pending" /\ fetchPc' = "settled" /\ ~cancelled))
     => \A i \in DOMAIN filtered' :
          LET d == DepartureInstant(Heap(filtered'[i]))
          IN  ~(d # NaN /\ d < now')
    ]_vars

IndexOf(s, r) == CHOOSE i \in DOMAIN s : s[i] = r

\* the sort key of a flight as the specification gives it
ClaimKey(f, key) ==
  CASE key = "price" ->
         <<IF f.price_current # Null THEN f.price_current[1]
           ELSE IF f.price_normal # Null THEN f.price_normal[1]
           ELSE Infinity>>
    [] key = "seen" -> IF f.last_seen_at = Null THEN <<>> ELSE f.last_seen_at
    [] OTHER -> IF f.departure_ts = Null THEN <<>> ELSE f.departure_ts

\* C7: the sorted output is a permutation of the input, two flights with
\* equal sort keys keep the relative order they have in the input, and the
\* input array is as it was.
C7_StableSort ==
  (call.fn = "sorted" /\ call.done) =>
    LET out == call.arrays[call.out]
    IN  /\ Len(out) = Len(call.input)
        /\ {out[i] : i \in DOMAIN out} = {call.input[i] : i \in DOMAIN call.input}
        /\ \A i, j \in DOMAIN out :
             (i < j /\ ClaimKey(Heap(out[i]), call.key) = ClaimKey(Heap(out[j]), call.key))
               => IndexOf(call.input, out[i]) < IndexOf(call.input, out[j])
        /\ call.arrays.filtered = call.input

\* C7 witness: the sort has reordered an input that holds two flights with
\* equal keys, in descending direction
C7_Witness ==
  /\ call.fn = "sorted" /\ call.done
  /\ call.dir = "desc"
  /\ call.arrays[call.out] # call.input
  /\ \E i, j \in DOMAIN call.input :
       /\ i < j
       /\ ClaimKey(Heap(call.input[i]), call.key) = ClaimKey(Heap(call.input[j]), call.key)

\* the civil day (counted from the epoch) of instant x in zone tz
CivilDay(x, tz) == (x + UtcOffset(tz, x)) \div 24

\* C10: dayLabel is Today exactly when ts and now fall on the same civil day
\* of tz, Tomorrow exactly when ts falls on the civil day after that of now,
\* and Upcoming otherwise.
C10_CivilDays ==
  (call.fn = "dayLabel" /\ call.done) =>
    LET x == DateParse(call.ts, 0)
        dTs == CivilDay(x, call.tz)
        dNow == CivilDay(call.now, call.tz)
    IN  call.out = IF dTs = dNow THEN S("Today")
                   ELSE IF dTs = dNow + 1 THEN S("Tomorrow")
                   ELSE S("Upcoming")

(***************************************************************************)
(* Claims about the time helpers, checked under SpecTime.                  *)
(***************************************************************************)
\* the text does not denote an instant (or there is no text)
Unparseable(ts) == ts = Null \/ DateParse(ReplaceSpace(ts), 0) = NaN

\* C11: called with an unparseable or missing timestamp, dayLabel,
\* formatLocalDate, formatLocalTimeWithTz and LocalTime do not throw:
\* dayLabel answers Upcoming, the date string and the time string are empty.
C11_NeverThrows ==
  (/\ call.done
   /\ call.fn \in {"dayLabel", "formatLocalDate", "formatLocalTimeWithTz", "LocalTime"}
   /\ Unparseable(call.ts)) =>
     /\ call.out # Thrown
     /\ call.fn = "dayLabel" => call.out = S("Upcoming")
     /\ call.fn \in {"formatLocalDate", "formatLocalTimeWithTz"} => call.out = <<>>

\* 'YYYY-MM-DD HH:MM:SS' with nothing after the seconds
IsSpaceForm(ts) == ts # Null /\ Len(ts) = 19 /\ ts[11] = 32 /\ ~Unparseable(ts)

\* C12: parsePgTimestamptz maps a space-separated text with no offset to the
\* instant of the same wall-clock text read as UTC (the text suffixed with
\* Z, and its fully qualified ISO form), whatever the viewer's system zone.
C12_SpaceFormIsUtc ==
  (call.done /\ call.fn = "parsePgTimestamptz" /\ IsSpaceForm(call.ts)) =>
     /\ call.out = <<DateParse(ReplaceSpace(call.ts) \o <<90>>, 0)>>
     /\ call.out = <<parsePgTimestamptz(call.ts \o <<90>>, call.sys)>>

\* what a viewer whose system zone is y obtains from the call
ViewerResult(y) ==
  CASE call.fn = "dayLabel" -> dayLabel(call.ts, call.tz, call.now, y)
    [] call.fn = "formatLocalDate" -> formatLocalDate(call.ts, call.tz, y)
    [] call.fn = "formatLocalTimeWithTz" -> formatLocalTimeWithTz(call.ts, call.tz, y)
    [] call.fn = "LocalTime" -> LocalTime(call.ts, call.tz, y)
    [] call.fn = "fmtDate" -> fmtDate(call.ts, y)
    [] call.fn = "fmtTime" -> fmtTime(call.ts, y)

\* C13: with a record zone tz supplied, the date, the time string and the
\* day bucket a viewer obtains are those every other viewer obtains for the
\* same ts, tz and now, whatever their system zones.
C13_ViewerIndependent ==
  (call.done /\ call.fn # "parsePgTimestamptz" /\ Truthy(call.tz)) =>
     \A y \in Zones : ViewerResult(y) = call.out

(***************************************************************************)
(* Claims about the card's record normalization, checked under SpecCard.   *)
(***************************************************************************)
\* C14: deriving the card's codes, names and times completes without
\* throwing for every raw record; a route that is absent, null or not a
\* string gives empty codes unless the record has structured codes, and a
\* time that is absent, null or not a string gives the placeholder times
\* unless the record has structured times.
C14_NormalizationTotal ==
  (call.fn = "FlightCard" /\ call.done) =>
     /\ ~call.out.thrown
     /\ (~IsString(call.flight.route) /\ ~Truthy(call.flight.from_code))
          => call.out.from_code = <<>>
     /\ (/\ ~IsString(call.flight.time)
         /\ ~Truthy(call.flight.dep_time) /\ ~Truthy(call.flight.arr_time))
          => call.out.dep = EmDash /\ call.out.arr = EmDash

\* empty, or exactly three uppercase letters
IsAirportCode(c) == c = <<>> \/ (Len(c) = 3 /\ \A i \in 1 .. 3 : c[i] >= 65 /\ c[i] <= 90)

\* C18: the origin and destination codes the card derives from a record are
\* empty or exactly three uppercase letters.
C18_CodesWellFormed ==
  (call.fn = "FlightCard" /\ call.done /\ ~call.out.thrown) =>
     IsAirportCode(call.out.from_code) /\ IsAirportCode(call.out.to_code)

(***************************************************************************)
(* Claims about the home page, checked under SpecHome.                     *)
(***************************************************************************)
\* C15: a fetch that failed (network error, response that is not 2xx, body
\* that cannot be parsed) is never shown as the 'no flights' empty state,
\* which is what a fetch that succeeded with no flights shows.
C15_FailureDistinct ==
  (/\ call.fn = "Home" /\ call.pc = "settled"
   /\ call.outcome \in {"network error", "http error", "unparseable body"})
    => HomeView # "no flights notice"

(***************************************************************************)
(* Claims about the filter and the sort, checked under SpecQuery.          *)
(***************************************************************************)
\* the text is a numeral, possibly with white space around it
DenotesNumber(s) == trim(s) # <<>> /\ Number(s) # NaN

EffectivePrice(f) ==
  IF f.price_current # Null THEN f.price_current[1]
  ELSE IF f.price_normal # Null THEN f.price_normal[1]
  ELSE Infinity

\* the references an array holds
Refs(s) == {s[i] : i \in DOMAIN s}

\* C17: with a max price that denotes a number the listing holds exactly the
\* flights that pass the other rules and whose effective price does not
\* exceed it (so no flight without a price), and under the price sort the
\* effective prices of the listing ascend (asc) or descend (desc), a flight
\* without a price being last (asc) or first (desc).
C17_EffectivePrice ==
  (call.fn = "listing" /\ call.done) =>
     /\ (Truthy(call.fs.maxPrice) /\ DenotesNumber(call.fs.maxPrice)) =>
          Refs(call.out) =
            {r \in Refs(listingOf(call.flights, [call.fs EXCEPT !.maxPrice = <<>>],
                                  call.key, call.dir, call.now)) :
               EffectivePrice(Heap(r)) <= Number(call.fs.maxPrice)}
     /\ call.key = "price" =>
          \A i, j \in DOMAIN call.out :
            i < j => IF call.dir = "asc"
                     THEN EffectivePrice(Heap(call.out[i])) <= EffectivePrice(Heap(call.out[j]))
                     ELSE EffectivePrice(Heap(call.out[i])) >= EffectivePrice(Heap(call.out[j]))

\* C17 witness: max price 5 and the price sort; the records hold a flight
\* with no price and a flight whose only price is a normal price above 5,
\* both left out, and a flight priced below 5, listed
C17_Witness ==
  /\ call.fn = "listing" /\ call.done
  /\ call.fs.maxPrice = S("5") /\ call.key = "price"
  /\ \E r \in Refs(call.flights) \ Refs(call.out) :
       Heap(r).price_current = Null /\ Heap(r).price_normal = Null
         /\ ~IsUnavailable(Heap(r))
  /\ \E r \in Refs(call.flights) \ Refs(call.out) :
       Heap(r).price_current = Null /\ Heap(r).price_normal # Null
  /\ call.out # <<>>

\* C19: with an aircraft selected, the listing holds exactly the flights
\* that pass the other rules and whose aircraft label, trimmed, is the
\* selected value; a flight with no label is not listed.
C19_AircraftTrimmed ==
  (call.fn = "listing" /\ call.done /\ Truthy(call.fs.aircraft)) =>
     Refs(call.out) =
       {r \in Refs(listingOf(call.flights, [call.fs EXCEPT !.aircraft = <<>>],
                             call.key, call.dir, call.now)) :
          /\ Truthy(Heap(r).aircraft)
          /\ trim(Heap(r).aircraft) = call.fs.aircraft}

(***************************************************************************)
(* Claims about the free-text search, checked under SpecSearch.            *)
(***************************************************************************)
\* the query, trimmed and without regard to case, is a substring of the
\* origin name, the destination name, the origin code or the destination code
QueryHit(f, q) ==
  LET needle == toLowerCase(trim(q))
  IN  \/ includes(toLowerCase(OrEmpty(f.origin_name)), needle)
      \/ includes(toLowerCase(OrEmpty(f.destination_name)), needle)
      \/ includes(toLowerCase(OrEmpty(f.origin_iata)), needle)
      \/ includes(toLowerCase(OrEmpty(f.destination_iata)), needle)

\* C20: with a non-empty query the listing holds exactly the flights that
\* pass every other rule and in which the query hits one of the four
\* fields: no flight without a hit is listed, and a hit in any one field is
\* enough.
C20_FreeText ==
  (call.fn = "filtered" /\ call.done /\ Truthy(call.q)) =>
     Refs(call.out) =
       {r \in Refs(filteredByQuery(call.flights, <<>>, call.fs, call.now)) :
          QueryHit(Heap(r), call.q)}

\* C20 witness: a query that needs trimming and case folding; a flight with
\* a hit is listed and a flight that passes every other rule is left out
C20_Witness ==
  /\ call.fn = "filtered" /\ call.done
  /\ Truthy(trim(call.q)) /\ toLowerCase(trim(call.q)) # call.q
  /\ call.out # <<>>
  /\ Refs(filteredByQuery(call.flights, <<>>, call.fs, call.now)) \ Refs(call.out) # {}

(***************************************************************************)
(* Claims about the order of the timestamp sorts, checked under SpecSort.  *)
(***************************************************************************)
\* the timestamp text a sort key reads, Null for the price key
KeyText(f, key) == IF key = "seen" THEN f.last_seen_at ELSE f.departure_ts

\* C21: under the departure and the seen sort a flight with no timestamp
\* precedes every flight that has one in ascending order and follows every
\* such flight in descending order, and the descending comparison of any two
\* flights is the negation of the ascending one.
C21_MissingKeyedEmpty ==
  (call.fn = "sorted" /\ call.done /\ call.key \in {"departure", "seen"}) =>
    LET out == call.arrays[call.out]
    IN  /\ \A i, j \in DOMAIN out :
             (/\ i < j
              /\ Truthy(KeyText(Heap(out[i]), call.key)) # Truthy(KeyText(Heap(out[j]), call.key)))
               => (Truthy(KeyText(Heap(out[j]), call.key)) <=> call.dir = "asc")
        /\ \A a, b \in Refs(call.input) :
             Compare(Heap(a), Heap(b), call.key, "desc")
               = 0 - Compare(Heap(a), Heap(b), call.key, "asc")

\* C21 witness: a descending sort has moved a flight with no timestamp from
\* the front of the input to behind a flight that has one
C21_Witness ==
  /\ call.fn = "sorted" /\ call.done
  /\ call.key \in {"departure", "seen"} /\ call.dir = "desc"
  /\ Len(call.input) >= 2
  /\ ~Truthy(KeyText(Heap(call.input[1]), call.key))
  /\ Truthy(KeyText(Heap(call.arrays[call.out][1]), call.key))

\* the instant a timestamp text denotes, NaN when it denotes none; a
\* space-separated text and a text with no offset are read as UTC
InstantOf(ts) == IF Truthy(ts) THEN DateParse(ReplaceSpace(ts), 0) ELSE NaN

\* C22: under the departure sort no flight whose departure text is
\* unparseable stands before a flight whose departure text is parseable, in
\* either direction.
C22_UnparseableLast ==
  (call.fn = "sorted" /\ call.done /\ call.key = "departure") =>
    LET out == call.arrays[call.out]
    IN  \A i, j \in DOMAIN out :
          i < j => ~(/\ Truthy(Heap(out[i]).departure_ts)
                     /\ InstantOf(Heap(out[i]).departure_ts) = NaN
                     /\ InstantOf(Heap(out[j]).departure_ts) # NaN)

\* C23: under the ascending departure and seen sorts, of two flights with
\* parseable timestamps the one with the earlier instant stands first.
C23_InstantOrder ==
  (call.fn = "sorted" /\ call.done /\ call.key \in {"departure", "seen"}
     /\ call.dir = "asc") =>
    LET out == call.arrays[call.out]
    IN  \A i, j \in DOMAIN out :
          (/\ i < j
           /\ InstantOf(KeyText(Heap(out[i]), call.key)) # NaN
           /\ InstantOf(KeyText(Heap(out[j]), call.key)) # NaN)
            => InstantOf(KeyText(Heap(out[i]), call.key))
                 <= InstantOf(KeyText(Heap(out[j]), call.key))

(***************************************************************************)
(* Claims about the legacy route, checked under SpecCard.                  *)
(***************************************************************************)
\* the length of the separator of the set {U+2192, ->, -, U+2014} that
\* starts at position i of s, 0 if none does
SeparatorAt(s, i) ==
  IF s[i] \in {8594, 8212} THEN 1
  ELSE IF s[i] = 45 THEN (IF i < Len(s) /\ s[i + 1] = 62 THEN 2 ELSE 1)
  ELSE 0

HasSeparator(s) == \E i \in DOMAIN s : SeparatorAt(s, i) > 0

FirstSeparator(s) ==
  CHOOSE i \in DOMAIN s :
    SeparatorAt(s, i) > 0 /\ \A h \in 1 .. i - 1 : SeparatorAt(s, h) = 0

\* the operands before and after the first separator, trimmed
OperandA(s) == trim(SubSeq(s, 1, FirstSeparator(s) - 1))
OperandB(s) ==
  trim(SubSeq(s, FirstSeparator(s) + SeparatorAt(s, FirstSeparator(s)), Len(s)))

\* C24: for a route 'A <sep> B' the card's origin code is derived from A
\* and its destination code from B, the route being split at its first
\* separator; a structured code of the record is shown in place of the
\* parsed one.
C24_FirstSeparator ==
  (/\ call.fn = "FlightCard" /\ call.done /\ ~call.out.thrown
   /\ IsString(call.flight.route) /\ HasSeparator(call.flight.route)) =>
     /\ call.out.from_code =
          IF Truthy(call.flight.from_code) THEN call.flight.from_code
          ELSE CodeOrPrefix(OperandA(call.flight.route))
     /\ call.out.to_code =
          IF Truthy(call.flight.to_code) THEN call.flight.to_code
          ELSE CodeOrPrefix(OperandB(call.flight.route))


\* C25: in every reachable state of the listing page, page >= 1 and the
\* displayed currentPage lies in 1 .. totalPages, and the displayed page is
\* not empty whenever total > 0, the render between a filter change and the
\* page-reset effect included
C25_PageInRange ==
  LET srt == Sorted
      total == Len(srt)
      totalPages == totalPagesOf(total)
      currentPage == currentPageOf(page, totalPages)
  IN  /\ page >= 1
      /\ currentPage >= 1 /\ currentPage <= totalPages
      /\ total > 0 => pageItemsOf(srt, currentPage) # <<>>

\* C25 witness: the page state is 2, a filter change has left one page of
\* flights and the page-reset effect has not run yet
C25_Witness ==
  /\ ~cancelled /\ fetchPc = "settled" /\ effectDeps # ResetDeps
  /\ page = 2
  /\ Total > 0 /\ TotalPages = 1


\* C26: in every reachable state of the listing page, the states reached by
\* the clock advancing alone included, no flight whose departure instant is
\* strictly before the current time is among the displayed pageItems
C26_NoDepartedDisplayed ==
  LET items == PageItems
  IN  \A i \in DOMAIN items :
        LET d == DepartureInstant(Heap(items[i]))
        IN  ~(d # NaN /\ d < now)


\* the listing page (part_004): once the cleanup has run, no step changes
\* flights, error or loading
ListingInertAfterCleanup ==
  [][cancelled => UNCHANGED <<flights, error, loading>>]_vars

\* C27: when the listing component is unmounted before its fetch has
\* settled, the later settlement (success, error or exception) changes none
\* of its flights (globeair, asl), error and loading: once the cleanup has
\* run, no state update of that fetch is applied
C27_InertAfterCleanup ==
  [][call.cancelled =>
       /\ call'.globeair = call.globeair
       /\ call'.asl = call.asl
       /\ call'.error = call.error
       /\ call'.loading = call.loading
    ]_vars


\* C28: on the listing page loading is true until the fetch settles; when
\* the fetch settles while the component is mounted, loading becomes false
\* and, once false, never becomes true again; at that point error is not
\* empty exactly when the fetch failed, and then flights is the empty list,
\* and error is empty when the fetch succeeded
C28_LoadingSettles ==
  [][/\ (fetchPc # "settled" => loading)
     /\ (~loading => ~loading')
     /\ (fetchPc = "pending" /\ fetchPc' = "settled" /\ ~cancelled) =>
          /\ ~loading'
          /\ FetchFail => (error' # "" /\ flights' = <<>>)
          /\ ~FetchFail => error' = ""
    ]_vars

\* C28 witness: the fetch has failed while the component was mounted
C28_Witness ==
  /\ ~cancelled /\ fetchPc = "settled"
  /\ ~loading /\ error # "" /\ flights = <<>>


\* the slices of pages 1 .. k of a sorted list, one after the other
RECURSIVE PagesUpTo(_, _, _)
PagesUpTo(srt, totalPages, k) ==
  IF k = 0 THEN <<>>
  ELSE PagesUpTo(srt, totalPages, k - 1)
         \o pageItemsOf(srt, currentPageOf(k, totalPages))

\* C29: the pages partition the sorted list: the slices of pages
\* 1 .. totalPages, one after the other, are the sorted list, with no flight
\* twice and none left out; every page before the last holds exactly
\* pageSize flights; total is the number of flights of the list
C29_PagesPartition ==
  (call.fn = "paginate" /\ call.done) =>
    LET srt == call.sorted
        totalPages == call.out.totalPages
    IN  /\ PagesUpTo(srt, totalPages, totalPages) = srt
        /\ \A k \in 1 .. totalPages - 1 :
             Len(pageItemsOf(srt, currentPageOf(k, totalPages))) = pageSize
        /\ call.out.total = Len(srt)

\* C29 witness: a list of three pages whose last page is not full
C29_Witness ==
  /\ call.fn = "paginate" /\ call.done
  /\ call.out.totalPages = 3
  /\ call.out.total % pageSize # 0


\* a selected (origin, destination) pair is the pair of a record that is not
\* unavailable and has the selected status, if one is selected
PairExists ==
  (Truthy(from) /\ Truthy(to)) =>
    \E r \in FlightSet :
      /\ ~IsUnavailable(Heap(r))
      /\ OriginCode(Heap(r)) = toUpperCase(from)
      /\ DestinationCode(Heap(r)) = toUpperCase(to)
      /\ Truthy(status) => HasStatus(Heap(r), status)

\* C30: while the status filter stays as it is and the user chooses only
\* values the origin and destination dropdowns offer (or Any), a non-empty
\* (origin, destination) pair is, after every selection, the pair of at
\* least one record that is not unavailable and has the selected status
C30_PairExists ==
  [][(status' = status /\ PairExists) => PairExists']_vars

\* C30 witness: under a status filter an origin and a destination have been
\* selected
C30_Witness ==
  /\ Settled
  /\ Truthy(status) /\ Truthy(from) /\ Truthy(to)
  /\ PairExists

=============================================================================
